---------------------------- MODULE Spec2Model ----------------------------
(***************************************************************************)
(* A model of the Modbus monitor backend: the ModbusService engine         *)
(* (backend/modbus_service.py) and the FastAPI control surface that owns   *)
(* it (backend/main.py).                                                   *)
(*                                                                         *)
(* The program runs on one asyncio event loop.  Code between two awaits    *)
(* runs atomically, so every action below is the code from one suspension  *)
(* point to the next: of the monitoring task (ModbusService.               *)
(* start_monitoring), or of a request handler.  The Modbus device, the     *)
(* pymodbus client and the Redis server are the environment: what they     *)
(* answer is drawn with \E.                                                *)
(***************************************************************************)
EXTENDS Integers, Sequences, FiniteSets, TLC

(***************************************************************************)
(* Bounds of the model.                                                    *)
(***************************************************************************)
\* monitoring tasks created in one run (successful start_monitoring requests)
MaxStarts == 2
\* engine instances built by update_config, after the one built at startup
MaxConfigs == 1
\* batches the device delivers in one run (it keeps answering with errors after)
MaxBatches == 1
\* catalog entries a user of the class adds to one instance
MaxRegisters == 2

(***************************************************************************)
(* Program constants.                                                      *)
(***************************************************************************)
\* modbus_service.py:249  max_consecutive_errors = 5
max_consecutive_errors == 5
\* modbus_service.py:220  zremrangebyrank("modbus:history", 0, -1001)
TrimStop == -1001
\* main.py:268  int(os.getenv("START_ADDRESS", 1))
DefaultStartAddress == 1
\* main.py:269  int(os.getenv("END_ADDRESS", 26))
DefaultEndAddress == 26
\* main.py:312  limit: int = 100
DefaultLimit == 100
\* HTTP status codes of the control surface (main.py: HTTPException(status_code=...))
HTTP_OK == 200
HTTP_BAD_REQUEST == 400

\* (start_address, end_address) pairs a configuration update may carry
\* (ModbusConfigModel, main.py:48-49); "unset" is the process environment
\* before any update.
ConfigRanges == {<<5, 6>>}
\* values a write request may carry (RegisterWriteRequest.value is any int)
WriteValues == {65535, 65536}
\* value lists a multi-register write may carry
WriteLists == {<<7, 65536>>}
\* limits a history request may carry (limit is any int)
Limits == {0, 1, DefaultLimit}

Min(a, b) == IF a < b THEN a ELSE b
Max(a, b) == IF a > b THEN a ELSE b

VARIABLES
    services,         \* every ModbusService instance built so far (main.py:87,155)
    modbus_service,   \* main.py global: index of the current instance
    tasks,            \* every asyncio task built by start_monitoring (main.py:275);
                      \* the global monitoring_task is the last one
    environ,          \* os.environ START_ADDRESS / END_ADDRESS
    handlers,         \* request handlers suspended in "await monitoring_task"
    redis_latest,     \* Redis key modbus:latest
    redis_history,    \* Redis sorted set modbus:history, ascending by score
    clock,            \* number of datetime.now() calls of the sink so far
    response,         \* the response of the request answered by the last step
    event             \* what the last step was to the monitoring task

vars == <<services, modbus_service, tasks, environ, handlers,
          redis_latest, redis_history, clock, response, event>>


(***************************************************************************)
(* Values.  Python's None is the empty tuple and an Optional value is a    *)
(* tuple of length 0 or 1, so that a value and its absence compare.        *)
(***************************************************************************)
None == <<>>
Some(x) == <<x>>

\* json.dumps / json.loads (modbus_service.py:210,216, main.py:305,323): a JSON
\* text is a tagged copy of the value it encodes.
json_dumps(x) == <<"json", x>>
json_loads(s) == s[2]

\* os.getenv(name, default) on the modelled environment (main.py:268-269)
getenv(env, name, default) == IF env[name] = None THEN default ELSE env[name][1]

(***************************************************************************)
(* ModbusService: construction, catalog, link observation.                 *)
(***************************************************************************)
\* ModbusService.__init__.  client is "self.client is not None"; connected is
\* the connected flag of the client object self.client refers to.
ModbusService ==
    [client |-> FALSE, connected |-> FALSE, running |-> FALSE,
     registers_to_monitor |-> <<>>]

\* RegisterConfig that keeps the name it is given, None included
RegisterConfigUnnamed(address, count, register_type, name) ==
    [address |-> address, count |-> count, register_type |-> register_type,
     name |-> IF name = None THEN None ELSE name[1]]

\* RegisterConfig built by add_register: name or f"{register_type}_{address}",
\* so that no name and the empty name both give the default.  A name is the
\* tuple of its pieces, the empty string the empty tuple.
RegisterConfig(address, count, register_type, name) ==
    [address |-> address, count |-> count, register_type |-> register_type,
     name |-> IF name = None \/ name = Some(<<>>)
              THEN <<register_type, "_", address>> ELSE name[1]]

add_register(sv, address, count, register_type, name) ==
    [sv EXCEPT !.registers_to_monitor =
        Append(@, RegisterConfig(address, count, register_type, name))]

\* is_connected that asks for the client object alone, not for its link
is_connected_handle_only(sv) == sv.client

is_connected(sv) == sv.client /\ sv.connected

\* disconnect that does not close the client
disconnect_keeps_link(sv) == sv

\* ModbusService.disconnect: close() of the current client drops its link.
disconnect(sv) == IF sv.client THEN [sv EXCEPT !.connected = FALSE] ELSE sv

\* stop_monitoring that closes the link as well
stop_monitoring_closes(sv) == [sv EXCEPT !.running = FALSE, !.connected = FALSE]

\* ModbusService.stop_monitoring
stop_monitoring(sv) == [sv EXCEPT !.running = FALSE]

(***************************************************************************)
(* read_registers.  The driver's answer to one call is a response with its *)
(* values ("ok"), an error response ("isError"), or an exception           *)
(* ("ModbusException", "Exception").                                       *)
(***************************************************************************)
RegisterTypes == {"holding", "input", "coils", "discrete_inputs"}
DriverFailures ==
    {[status |-> f, values |-> <<>>] : f \in {"isError", "ModbusException", "Exception"}}

\* what a device holds at an address (its content is not the program's)
DeviceValue(address) == address % 65536

\* a device answer of n values read from address
DeviceAnswer(address, n) ==
    [status |-> "ok", values |-> [k \in 1..n |-> DeviceValue(address + k - 1)]]

\* Python's values[:count]
Slice(values, count) ==
    IF count >= 0 THEN SubSeq(values, 1, Min(count, Len(values)))
    ELSE SubSeq(values, 1, Max(Len(values) + count, 0))

\* read_registers(address, count, register_type) with the driver answering
\* answer: None, or the reading dict (its 'timestamp' is left out).
read_registers(sv, address, count, register_type, answer) ==
    IF ~sv.client \/ ~sv.connected THEN None
    ELSE IF register_type \notin RegisterTypes THEN None
    ELSE IF answer \in DriverFailures THEN None
    ELSE Some([address |-> address, type |-> register_type, count |-> count,
               values |-> Slice(answer.values, count)])

\* whether read_registers reaches the driver at all (lines 97-127)
read_reaches_driver(sv, register_type) ==
    sv.client /\ sv.connected /\ register_type \in RegisterTypes

(***************************************************************************)
(* read_all_registers: the coroutines it builds, and the join of their     *)
(* results in catalog order.                                               *)
(***************************************************************************)
\* lines 227-230: one read_registers call per catalog entry
read_all_tasks(sv) ==
    [i \in 1..Len(sv.registers_to_monitor) |->
        [address |-> sv.registers_to_monitor[i].address,
         count |-> sv.registers_to_monitor[i].count,
         register_type |-> sv.registers_to_monitor[i].register_type]]

RECURSIVE valid_results_from(_, _, _)
\* lines 234-243: for i, result in enumerate(results), from index i on
valid_results_from(results, registers, i) ==
    IF i > Len(results) THEN <<>>
    ELSE (IF results[i] # None
          THEN <<[address |-> results[i][1].address,
                  type |-> results[i][1].type,
                  count |-> results[i][1].count,
                  values |-> results[i][1].values,
                  name |-> registers[i].name,
                  entry |-> i]>>
          ELSE <<>>)
         \o valid_results_from(results, registers, i + 1)

\* valid_results that gives up at the first read that failed
valid_results_until_failure(results, registers) ==
    LET failed == {i \in DOMAIN results : results[i] = None}
        stop == IF failed = {} THEN Len(results)
                ELSE (CHOOSE i \in failed : \A j \in failed : i <= j) - 1
    IN  valid_results_from(SubSeq(results, 1, stop), registers, 1)

\* valid_results that names a reading after its place in the batch
valid_results_shifted(results, registers) ==
    LET batch == valid_results_from(results, registers, 1)
    IN  [k \in DOMAIN batch |-> [batch[k] EXCEPT !.name = registers[k].name]]

valid_results(results, registers) == valid_results_from(results, registers, 1)

(***************************************************************************)
(* Redis: a sorted set is the sequence of its [member, score] pairs in     *)
(* ascending score order (rank 0 first).                                   *)
(***************************************************************************)
\* the rank an index argument names in a set of n members (negative counts
\* from the end)
Rank(index, n) == IF index < 0 THEN n + index ELSE index

\* ZADD that adds no member, and only gives a present one its new score
ZAddExisting(zset, member, score) ==
    [k \in DOMAIN zset |->
        IF zset[k].member = member THEN [zset[k] EXCEPT !.score = score]
        ELSE zset[k]]

\* ZADD key {member: score}: a present member only gets the new score
ZAdd(zset, member, score) ==
    LET others == SelectSeq(zset, LAMBDA e : e.member # member)
        below  == SelectSeq(others, LAMBDA e : e.score <= score)
        above  == SelectSeq(others, LAMBDA e : e.score > score)
    IN  below \o <<[member |-> member, score |-> score]>> \o above

\* ZREMRANGEBYRANK key start stop
ZRemRangeByRank(zset, start, stop) ==
    LET n == Len(zset)
        s == Max(Rank(start, n), 0)
        e == Min(Rank(stop, n), n - 1)
    IN  IF s > e THEN zset
        ELSE SubSeq(zset, 1, s) \o SubSeq(zset, e + 2, n)

\* ZREVRANGE key start stop WITHSCORES: ranks count from the highest score
ZRevRange(zset, start, stop) ==
    LET n == Len(zset)
        s == Max(Rank(start, n), 0)
        e == Min(Rank(stop, n), n - 1)
    IN  IF s > e THEN <<>>
        ELSE [k \in 1..(e - s + 1) |-> zset[n - s - k + 1]]

\* get_historical_data (main.py:319-327): each entry is the decoded member with
\* its 'timestamp' replaced by the score
get_historical_data(zset, limit) ==
    LET data == ZRevRange(zset, 0, limit - 1)
    IN  [k \in 1..Len(data) |->
            [json_loads(data[k].member) EXCEPT !.timestamp = data[k].score]]

\* get_latest_data (main.py:303-307)
get_latest_data(latest) ==
    IF latest # None THEN Some(json_loads(latest[1])) ELSE None

(***************************************************************************)
(* The monitoring task (ModbusService.start_monitoring).                   *)
(*                                                                         *)
(* pc is the await the task is suspended at:                               *)
(*   "created"          built by create_task, not yet run                  *)
(*   "connect"          line 257 -> 71   await self.client.connect()       *)
(*   "gather"           line 265 -> 232  await asyncio.gather(...)         *)
(*   "set"              line 270 -> 210  await redis.set                   *)
(*   "zadd"             line 270 -> 214  await redis.zadd                  *)
(*   "zremrangebyrank"  line 270 -> 220  await redis.zremrangebyrank       *)
(*   "sleep"            lines 262, 280   await asyncio.sleep               *)
(*   "sleep_exc"        line 291         await asyncio.sleep in the        *)
(*                                       handler of "except Exception"     *)
(*   "done"             the task has finished                              *)
(*                                                                         *)
(* A local variable holds its value only while the code can still read it: *)
(* the results of a cycle until the gather has been joined, the batch      *)
(* until store_data_to_redis returns, every local until the task ends.     *)
(* The program reads none of these three: order is the order in which the *)
(* reads of the cycle completed; streak counts the failed steps of the     *)
(* loop (a reconnection that failed, a cycle without a reading, an         *)
(* unexpected exception) since its start or its last cycle with a reading; *)
(* exit is how the task ended.                                             *)
(***************************************************************************)
\* a local variable that is not bound
Unbound == 0 - 1

\* asyncio.create_task(modbus_service.start_monitoring()) on instance s
NewTask(s) ==
    [service |-> s, pc |-> "created", cancel |-> FALSE,
     consecutive_errors |-> Unbound, streak |-> 0,
     coroutines |-> <<>>, pending |-> {}, results |-> <<>>, order |-> <<>>,
     latest_data |-> None, timestamp |-> 0, stale |-> FALSE, exit |-> ""]

\* A stretch of the task's code yields the task and its instance as it leaves
\* them, whether it replaced self.client by a new client object, and how many
\* times it read the clock.
Yield(tk, sv, new_client, ticks) ==
    [task |-> tk, service |-> sv, new_client |-> new_client, ticks |-> ticks,
     exit |-> ""]

\* The coroutine has returned or raised, and its locals are gone.  why is
\* how it ended: "breaker" (break at the threshold), "stopped" (the while
\* condition was false), "cancelled" (break of line 284), "escaped" and
\* "unstarted" (the CancelledError left the coroutine).
Ended(tk, sv, why) ==
    [Yield([NewTask(tk.service) EXCEPT !.pc = "done", !.exit = why], sv, FALSE, 0)
        EXCEPT !.exit = why]

\* the loop is left (break, or the while condition is false): line 293
Finish(tk, sv, why) == Ended(tk, [sv EXCEPT !.running = FALSE], why)

\* await asyncio.sleep(self.config.poll_interval), at lines 262/280 ("sleep")
\* or at line 291 ("sleep_exc")
Sleep(tk, sv, where) ==
    Yield([tk EXCEPT !.pc = where, !.latest_data = None, !.timestamp = 0],
          sv, FALSE, 0)

\* Failure with the threshold compared by > instead of >=
FailureOffByOne(tk, sv, where) ==
    LET tk1 == [tk EXCEPT !.consecutive_errors = @ + 1]
    IN  IF tk1.consecutive_errors > max_consecutive_errors
        THEN Ended(tk1, [sv EXCEPT !.running = FALSE], "breaker")
        ELSE Yield([tk1 EXCEPT !.pc = where, !.latest_data = None, !.timestamp = 0],
                   sv, FALSE, 0)

\* Failure that does not count: the loop sleeps and tries again
FailureNoCount(tk, sv, where) == Sleep(tk, sv, where)

\* Failure whose "except Exception" handler lacks the check of lines
\* 288-290: an unexpected exception is counted and the loop always sleeps
FailureExceptUnchecked(tk, sv, where) ==
    LET tk1 == [tk EXCEPT !.consecutive_errors = @ + 1]
    IN  IF where = "sleep_exc" THEN Sleep(tk1, sv, where)
        ELSE IF tk1.consecutive_errors >= max_consecutive_errors
        THEN Finish(tk1, sv, "breaker")
        ELSE Sleep(tk1, sv, where)

\* lines 258-263, 273-280 and 286-291: count one failure, break at the
\* threshold, sleep otherwise
Failure(tk, sv, where) ==
    LET tk1 == [tk EXCEPT !.consecutive_errors = @ + 1]
    IN  IF tk1.consecutive_errors >= max_consecutive_errors
        THEN Finish(tk1, sv, "breaker")
        ELSE Sleep(tk1, sv, where)

\* store_data_to_redis up to its first await (lines 204-210)
StoreBegin(tk, sv, data, now) ==
    Yield([tk EXCEPT !.pc = "set",
                     !.latest_data = Some([data |-> data, timestamp |-> now + 1])],
          sv, FALSE, 1)

\* AfterGather that leaves the counter as it is after a non-empty batch
AfterGatherNoReset(tk, sv, now) ==
    LET data == valid_results(tk.results, sv.registers_to_monitor)
        tk1  == [tk EXCEPT !.coroutines = <<>>, !.pending = {},
                           !.results = <<>>, !.order = <<>>]
    IN  IF data # <<>>
        THEN StoreBegin(tk1, sv, data, now)
        ELSE Failure(tk1, sv, "sleep")

\* AfterGather that takes an empty batch for data ("if data is not None"):
\* the counter is reset and the batch is stored
AfterGatherStoresEmpty(tk, sv, now) ==
    LET data == valid_results(tk.results, sv.registers_to_monitor)
        tk1  == [tk EXCEPT !.coroutines = <<>>, !.pending = {},
                           !.results = <<>>, !.order = <<>>]
    IN  StoreBegin([tk1 EXCEPT !.consecutive_errors = 0], sv, data, now)

\* lines 234-243 and 267-280: the gather has returned
AfterGather(tk, sv, now) ==
    LET data == valid_results(tk.results, sv.registers_to_monitor)
        tk1  == [tk EXCEPT !.coroutines = <<>>, !.pending = {},
                           !.results = <<>>, !.order = <<>>]
    IN  IF data # <<>>
        THEN StoreBegin([tk1 EXCEPT !.consecutive_errors = 0], sv, data, now)
        ELSE Failure(tk1, sv, "sleep")

\* ReadAll that puts the first read alone in flight before it waits
ReadAllFirstOnly(tk, sv, now) ==
    LET cs  == read_all_tasks(sv)
        tk1 == [tk EXCEPT !.coroutines = cs,
                          !.pending = DOMAIN cs \cap {1},
                          !.results = [i \in DOMAIN cs |-> None],
                          !.order = <<>>]
    IN  IF Len(cs) = 0 THEN AfterGather(tk1, sv, now)
        ELSE Yield([tk1 EXCEPT !.pc = "gather"], sv, FALSE, 0)

\* read_all_registers up to its await (lines 227-232); gather of no coroutine
\* does not suspend
ReadAll(tk, sv, now) ==
    LET cs  == read_all_tasks(sv)
        tk1 == [tk EXCEPT !.coroutines = cs, !.pending = DOMAIN cs,
                          !.results = [i \in DOMAIN cs |-> None],
                          !.order = <<>>]
    IN  IF Len(cs) = 0 THEN AfterGather(tk1, sv, now)
        ELSE Yield([tk1 EXCEPT !.pc = "gather"], sv, FALSE, 0)

\* connect() up to its await (lines 64-71): a new client object, not yet
\* connected, replaces self.client
ConnectBegin(sv) == [sv EXCEPT !.client = TRUE, !.connected = FALSE]

\* The transport's answer to client.connect(): "connected", "refused" (it
\* returns without a link) or "raised".  connect() then reads
\* self.client.connected, of whichever client self.client is by then
\* (lines 73-82).  mine: self.client is still the client this call built.
ConnectEnd(sv, mine, answer) ==
    LET sv1 == IF answer = "connected" /\ mine
               THEN [sv EXCEPT !.connected = TRUE] ELSE sv
    IN  [service |-> sv1,
         returned |-> IF answer = "raised" THEN FALSE
                      ELSE sv1.client /\ sv1.connected]

ConnectAnswers == {"connected", "refused", "raised"}

\* the top of the loop, lines 253-265
LoopTop(tk, sv, now) ==
    IF ~sv.running THEN Finish(tk, sv, "stopped")
    ELSE IF ~sv.client \/ ~sv.connected
    THEN Yield([tk EXCEPT !.pc = "connect", !.stale = FALSE],
               ConnectBegin(sv), TRUE, 0)
    ELSE ReadAll(tk, sv, now)

\* Start with the counter beginning at 1
StartCountsFromOne(tk, sv, now) ==
    LoopTop([tk EXCEPT !.consecutive_errors = 1],
            [sv EXCEPT !.running = TRUE], now)

\* lines 247-253: the first run of the task
Start(tk, sv, now) ==
    LoopTop([tk EXCEPT !.consecutive_errors = 0],
            [sv EXCEPT !.running = TRUE], now)

\* AfterConnect that sleeps after a reconnection that succeeded, and leaves
\* the cycle to the next iteration
AfterConnectSleeps(tk, sv, returned, now) ==
    IF ~returned THEN Failure(tk, sv, "sleep") ELSE Sleep(tk, sv, "sleep")

\* AfterConnect without the continue of line 263: a reconnection that failed
\* is counted, and the cycle runs all the same
AfterConnectReadsAnyway(tk, sv, returned, now) ==
    IF ~returned THEN ReadAll([tk EXCEPT !.consecutive_errors = @ + 1], sv, now)
    ELSE ReadAll(tk, sv, now)

\* lines 257-265: connect() has returned
AfterConnect(tk, sv, returned, now) ==
    IF ~returned THEN Failure(tk, sv, "sleep") ELSE ReadAll(tk, sv, now)

\* StoreFailed that counts the error of Redis as a failure of the loop
StoreFailedCounts(tk, sv) == Failure(tk, sv, "sleep")

\* store_data_to_redis after an error of Redis (lines 222-223), then
\* lines 271-280
StoreFailed(tk, sv) == Sleep(tk, sv, "sleep")

\* OnCancel that swallows a CancelledError raised in a sleep and goes on with
\* the next iteration
OnCancelContinues(tk, sv) ==
    IF tk.pc = "created" THEN Ended(tk, sv, "unstarted")
    ELSE IF tk.pc \in {"sleep", "sleep_exc"}
    THEN LoopTop([tk EXCEPT !.cancel = FALSE], sv, 0)
    ELSE Finish(tk, sv, "cancelled")

\* lines 282-284 and 293, or the CancelledError leaving the task where no
\* handler of the loop catches it (before its first run; in the sleep of
\* line 291, which is inside the handler of "except Exception")
OnCancel(tk, sv) ==
    IF tk.pc = "created" THEN Ended(tk, sv, "unstarted")
    ELSE IF tk.pc = "sleep_exc" THEN Ended(tk, sv, "escaped")
    ELSE Finish(tk, sv, "cancelled")

(***************************************************************************)
(* State after startup_event (main.py:64-87): one engine instance, no      *)
(* monitoring task, an empty Redis.                                        *)
(***************************************************************************)
NoResponse ==
    [op |-> "", status |-> 0, detail |-> "", arg |-> None, result |-> None,
     io |-> 0]

Respond(op, status, detail, arg, result, io) ==
    [op |-> op, status |-> status, detail |-> detail, arg |-> arg,
     result |-> result, io |-> io]

\* The step of a monitoring task: the task, the step, whether the awaited
\* call succeeded (reconnect: connect() returned True; join: some read of the
\* cycle returned a reading), the task as it was, whether its instance was
\* connected, and how the task ended if the step ended it.
NoEvent ==
    [task |-> 0, kind |-> "", ok |-> FALSE, was |-> NewTask(0), linked |-> FALSE,
     exit |-> ""]

HandlerNames == {"disconnect", "stop_monitoring", "update_config"}
NoHandler == [task |-> 0, arg |-> None]

Init ==
    /\ services = <<ModbusService>>
    /\ modbus_service = 1
    /\ tasks = <<>>
    /\ environ = [START_ADDRESS |-> None, END_ADDRESS |-> None]
    /\ handlers = [h \in HandlerNames |-> NoHandler]
    /\ redis_latest = None
    /\ redis_history = <<>>
    /\ clock = 0
    /\ response = NoResponse
    /\ event = NoEvent

\* the global monitoring_task: the last task built (0: None)
monitoring_task == Len(tasks)

\* "monitoring_task and not monitoring_task.done()"
TaskActive == monitoring_task # 0 /\ tasks[monitoring_task].pc # "done"

\* the instance s got a new client object: the connects in flight on s no
\* longer own self.client
Supersede(tks, s) ==
    [u \in DOMAIN tks |->
        IF tks[u].service = s /\ tks[u].pc = "connect"
        THEN [tks[u] EXCEPT !.stale = TRUE] ELSE tks[u]]

\* the failed steps in a row after the step kind of a task that was tk; the
\* count stops at the threshold, beyond which there is nothing to tell apart
Streak(tk, kind, ok) ==
    IF kind = "start" \/ (kind = "join" /\ ok) THEN 0
    ELSE IF kind \in {"reconnect", "join", "error"} /\ ~ok
    THEN Min(tk.streak + 1, max_consecutive_errors)
    ELSE tk.streak

\* the state after the step kind of task t, whose code yielded out
Apply(t, kind, ok, out) ==
    LET s == tasks[t].service IN
    /\ tasks' = [(IF out.new_client THEN Supersede(tasks, s) ELSE tasks)
                    EXCEPT ![t] = IF out.task.pc = "done" THEN out.task
                                 ELSE [out.task EXCEPT
                                          !.streak = Streak(tasks[t], kind, ok)]]
    /\ services' = [services EXCEPT ![s] = out.service]
    /\ clock' = clock + out.ticks
    /\ event' = [task |-> t, kind |-> kind, ok |-> ok, was |-> tasks[t],
                 linked |-> is_connected(services[s]), exit |-> out.exit]
    /\ response' = NoResponse

\* What the driver may answer to the read c: a failure, or the values of a
\* response whose length differs from the count by one of offsets.
DriverAnswers(c, offsets) ==
    DriverFailures \cup
    {DeviceAnswer(c.address, c.count + d) : d \in {e \in offsets : c.count + e >= 0}}

\* the device delivers at most MaxBatches batches in a run
MayDeliver == clock + 2 <= 2 * MaxBatches

(***************************************************************************)
(* Steps of the monitoring task.                                           *)
(*                                                                         *)
(* The event loop runs its ready callbacks first in, first out.  The       *)
(* wake-up of a handler that awaits a task is queued when the task ends,   *)
(* so it runs before whatever becomes ready later, a step of a task in     *)
(* particular.  Handlers of requests that had already arrived may still    *)
(* run before it.                                                          *)
(***************************************************************************)
\* a handler is ready to resume: the task it awaits has finished
WakeupQueued ==
    \E h \in DOMAIN handlers :
        handlers[h].task # 0 /\ tasks[handlers[h].task].pc = "done"

Runs(t, at) ==
    /\ t \in DOMAIN tasks
    /\ tasks[t].pc \in at
    /\ ~tasks[t].cancel
    /\ ~WakeupQueued

\* the first run of the task: lines 247-265
TaskStart(t) ==
    /\ Runs(t, {"created"})
    /\ Apply(t, "start", TRUE, Start(tasks[t], services[tasks[t].service], clock))
    /\ UNCHANGED <<modbus_service, environ, handlers, redis_latest, redis_history>>

\* client.connect() answers the reconnect of line 257
ReconnectDone(t) ==
    /\ Runs(t, {"connect"})
    /\ \E answer \in ConnectAnswers :
        LET r == ConnectEnd(services[tasks[t].service], ~tasks[t].stale, answer)
        IN  Apply(t, "reconnect", r.returned,
                  AfterConnect(tasks[t], r.service, r.returned, clock))
    /\ UNCHANGED <<modbus_service, environ, handlers, redis_latest, redis_history>>

\* one read_registers coroutine of the cycle runs to its end (lines 94-146)
ReadComplete(t, i) ==
    /\ Runs(t, {"gather"})
    /\ i \in tasks[t].pending
    /\ \E answer \in DriverAnswers(tasks[t].coroutines[i], {0, 1}) :
        /\ answer \notin DriverFailures => MayDeliver
        /\ LET c == tasks[t].coroutines[i]
               r == read_registers(services[tasks[t].service], c.address,
                                   c.count, c.register_type, answer)
           IN  /\ tasks' = [tasks EXCEPT ![t].results[i] = r,
                                         ![t].pending = @ \ {i},
                                         ![t].order = Append(@, i)]
               /\ event' = [task |-> t, kind |-> "read", ok |-> (r # None),
                            was |-> tasks[t],
                            linked |-> is_connected(services[tasks[t].service]),
                            exit |-> ""]
    /\ response' = NoResponse
    /\ UNCHANGED <<services, modbus_service, environ, handlers,
                   redis_latest, redis_history, clock>>

\* gather returns once every coroutine is done: lines 232-243, 267-280
CycleJoin(t) ==
    /\ Runs(t, {"gather"})
    /\ tasks[t].pending = {}
    /\ Apply(t, "join", \E i \in DOMAIN tasks[t].results : tasks[t].results[i] # None,
             AfterGather(tasks[t], services[tasks[t].service], clock))
    /\ UNCHANGED <<modbus_service, environ, handlers, redis_latest, redis_history>>

\* an exception leaves the try body of the loop, and the frame of
\* read_all_registers with it: lines 285-291
UnexpectedError(t) ==
    /\ Runs(t, {"gather"})
    /\ Apply(t, "error", FALSE,
             Failure([tasks[t] EXCEPT !.coroutines = <<>>, !.pending = {},
                                      !.results = <<>>, !.order = <<>>],
                     services[tasks[t].service], "sleep_exc"))
    /\ UNCHANGED <<modbus_service, environ, handlers, redis_latest, redis_history>>

\* redis.set answers: lines 210-214
RedisSet(t) ==
    /\ Runs(t, {"set"})
    /\ \E ok \in BOOLEAN :
        IF ok
        THEN /\ redis_latest' = Some(json_dumps(tasks[t].latest_data[1]))
             /\ Apply(t, "set", TRUE,
                      Yield([tasks[t] EXCEPT !.pc = "zadd", !.timestamp = clock + 1],
                            services[tasks[t].service], FALSE, 1))
        ELSE /\ redis_latest' = redis_latest
             /\ Apply(t, "set", FALSE,
                      StoreFailed(tasks[t], services[tasks[t].service]))
    /\ UNCHANGED <<modbus_service, environ, handlers, redis_history>>

\* redis.zadd answers: lines 214-220
RedisZadd(t) ==
    /\ Runs(t, {"zadd"})
    /\ \E ok \in BOOLEAN :
        IF ok
        THEN /\ redis_history' = ZAdd(redis_history,
                                      json_dumps(tasks[t].latest_data[1]),
                                      tasks[t].timestamp)
             /\ Apply(t, "zadd", TRUE,
                      Yield([tasks[t] EXCEPT !.pc = "zremrangebyrank"],
                            services[tasks[t].service], FALSE, 0))
        ELSE /\ redis_history' = redis_history
             /\ Apply(t, "zadd", FALSE,
                      StoreFailed(tasks[t], services[tasks[t].service]))
    /\ UNCHANGED <<modbus_service, environ, handlers, redis_latest>>

\* redis.zremrangebyrank answers: lines 220-223, then 271-280
RedisTrim(t) ==
    /\ Runs(t, {"zremrangebyrank"})
    /\ \E ok \in BOOLEAN :
        /\ redis_history' = IF ok THEN ZRemRangeByRank(redis_history, 0, TrimStop)
                            ELSE redis_history
        /\ Apply(t, "zremrangebyrank", ok,
                 Sleep(tasks[t], services[tasks[t].service], "sleep"))
    /\ UNCHANGED <<modbus_service, environ, handlers, redis_latest>>

\* the sleep ends: back to the while condition of line 253
Wake(t) ==
    /\ Runs(t, {"sleep", "sleep_exc"})
    /\ Apply(t, "wake", TRUE, LoopTop(tasks[t], services[tasks[t].service], clock))
    /\ UNCHANGED <<modbus_service, environ, handlers, redis_latest, redis_history>>

\* A cancelled task is resumed with CancelledError at the await it is
\* suspended at.  The request that await had sent may or may not have taken
\* effect (landed).
Cancelled(t) ==
    /\ t \in DOMAIN tasks
    /\ tasks[t].cancel
    /\ tasks[t].pc # "done"
    /\ ~WakeupQueued
    /\ \E landed \in BOOLEAN :
        LET tk == tasks[t]
            sv == services[tk.service]
            sv1 == IF landed /\ tk.pc = "connect"
                   THEN ConnectEnd(sv, ~tk.stale, "connected").service ELSE sv
        IN  /\ landed => tk.pc \in {"connect", "set", "zadd", "zremrangebyrank"}
            /\ redis_latest' = IF landed /\ tk.pc = "set"
                               THEN Some(json_dumps(tk.latest_data[1]))
                               ELSE redis_latest
            /\ redis_history' =
                  IF landed /\ tk.pc = "zadd"
                  THEN ZAdd(redis_history, json_dumps(tk.latest_data[1]), tk.timestamp)
                  ELSE IF landed /\ tk.pc = "zremrangebyrank"
                  THEN ZRemRangeByRank(redis_history, 0, TrimStop)
                  ELSE redis_history
            /\ Apply(t, "cancelled", landed, OnCancel(tk, sv1))
    /\ UNCHANGED <<modbus_service, environ, handlers>>

(***************************************************************************)
(* The control surface (main.py).  A handler that awaits the monitoring    *)
(* task is two steps: up to the await, and from the end of the awaited     *)
(* task on.  Between the two the task takes its steps, and other requests  *)
(* are handled.                                                            *)
(***************************************************************************)
\* "if monitoring_task and not monitoring_task.done(): monitoring_task.cancel();
\* await monitoring_task": the handler h is suspended on the task
Suspend(h, arg) ==
    /\ tasks' = [tasks EXCEPT ![monitoring_task].cancel = TRUE]
    /\ handlers' = [handlers EXCEPT ![h] = [task |-> monitoring_task, arg |-> arg]]
    /\ response' = NoResponse

\* the task the handler h awaits has finished
Resumes(h) ==
    /\ handlers[h].task # 0
    /\ tasks[handlers[h].task].pc = "done"

\* POST /api/connect (main.py:160-169, modbus_service.py:61-82), from the
\* request to the transport's answer to client.connect()
Connect ==
    /\ \E answer \in ConnectAnswers :
        LET r == ConnectEnd(ConnectBegin(services[modbus_service]), TRUE, answer)
        IN  /\ services' = [services EXCEPT ![modbus_service] = r.service]
            /\ response' = IF r.returned
                           THEN Respond("connect", HTTP_OK, "Connected successfully",
                                        None, None, 1)
                           ELSE Respond("connect", HTTP_BAD_REQUEST,
                                        "Failed to connect to Modbus device",
                                        None, None, 1)
    /\ tasks' = Supersede(tasks, modbus_service)
    /\ event' = NoEvent
    /\ UNCHANGED <<modbus_service, environ, handlers, redis_latest,
                   redis_history, clock>>

\* POST /api/disconnect after the await, or all of it when no task is active
\* (main.py:183-186)
DisconnectEnd ==
    /\ services' = [services EXCEPT ![modbus_service] = disconnect(@)]
    /\ response' = Respond("disconnect", HTTP_OK, "Disconnected successfully",
                           None, None, 0)

DisconnectRequest ==
    /\ handlers["disconnect"].task = 0
    /\ IF TaskActive
       THEN /\ Suspend("disconnect", None)
            /\ UNCHANGED services
       ELSE /\ DisconnectEnd
            /\ UNCHANGED <<tasks, handlers>>
    /\ event' = NoEvent
    /\ UNCHANGED <<modbus_service, environ, redis_latest,
                   redis_history, clock>>

DisconnectResume ==
    /\ Resumes("disconnect")
    /\ DisconnectEnd
    /\ handlers' = [handlers EXCEPT !["disconnect"] = NoHandler]
    /\ event' = NoEvent
    /\ UNCHANGED <<modbus_service, tasks, environ, redis_latest,
                   redis_history, clock>>

\* POST /api/stop_monitoring after the await, or all of it when no task is
\* active (main.py:291-294)
StopEnd ==
    /\ services' = [services EXCEPT ![modbus_service] = stop_monitoring(@)]
    /\ response' = Respond("stop_monitoring", HTTP_OK, "Monitoring stopped",
                           None, None, 0)

StopRequest ==
    /\ handlers["stop_monitoring"].task = 0
    /\ IF TaskActive
       THEN /\ Suspend("stop_monitoring", None)
            /\ UNCHANGED services
       ELSE /\ StopEnd
            /\ UNCHANGED <<tasks, handlers>>
    /\ event' = NoEvent
    /\ UNCHANGED <<modbus_service, environ, redis_latest,
                   redis_history, clock>>

StopResume ==
    /\ Resumes("stop_monitoring")
    /\ StopEnd
    /\ handlers' = [handlers EXCEPT !["stop_monitoring"] = NoHandler]
    /\ event' = NoEvent
    /\ UNCHANGED <<modbus_service, tasks, environ, redis_latest,
                   redis_history, clock>>

\* POST /api/config after the await, or all of it when no task is active
\* (main.py:137-157)
ConfigEnd(range) ==
    /\ services' = Append([services EXCEPT ![modbus_service] = disconnect(@)],
                          ModbusService)
    /\ modbus_service' = Len(services) + 1
    /\ environ' = [START_ADDRESS |-> Some(range[1]), END_ADDRESS |-> Some(range[2])]
    /\ response' = Respond("update_config", HTTP_OK,
                           "Configuration updated successfully", Some(range), None, 0)

UpdateConfigRequest(range) ==
    /\ handlers["update_config"].task = 0
    /\ Len(services) <= MaxConfigs
    /\ IF TaskActive
       THEN /\ Suspend("update_config", Some(range))
            /\ UNCHANGED <<services, modbus_service, environ>>
       ELSE /\ ConfigEnd(range)
            /\ UNCHANGED <<tasks, handlers>>
    /\ event' = NoEvent
    /\ UNCHANGED <<redis_latest, redis_history, clock>>

UpdateConfigResume ==
    /\ Resumes("update_config")
    /\ ConfigEnd(handlers["update_config"].arg[1])
    /\ handlers' = [handlers EXCEPT !["update_config"] = NoHandler]
    /\ event' = NoEvent
    /\ UNCHANGED <<tasks, redis_latest, redis_history, clock>>

\* how the task the global monitoring_task refers to ended ("": there is
\* none, or it has not ended)
LastExit == IF monitoring_task = 0 THEN "" ELSE tasks[monitoring_task].exit

\* the global monitoring_task is rebound: the task object it referred to is
\* dropped, and how it ended with it
Rebind(tks, s) ==
    Append([u \in DOMAIN tks |-> [tks[u] EXCEPT !.exit = ""]], NewTask(s))

\* start_rejected without the check for a task that is active
start_rejected_unguarded(sv, active) ==
    IF ~is_connected(sv) THEN "Not connected to Modbus device" ELSE ""

\* start_rejected without the check for a link that is connected
start_rejected_unconnected(sv, active) ==
    IF active THEN "Monitoring already running" ELSE ""

\* the checks of POST /api/start_monitoring (main.py:258-265): the detail of
\* the error it raises, "" when it raises none
start_rejected(sv, active) ==
    IF ~is_connected(sv) THEN "Not connected to Modbus device"
    ELSE IF active THEN "Monitoring already running"
    ELSE ""

\* POST /api/start_monitoring (main.py:254-277)
StartMonitoring ==
    LET sv == services[modbus_service]
        start_addr == getenv(environ, "START_ADDRESS", DefaultStartAddress)
        end_addr == getenv(environ, "END_ADDRESS", DefaultEndAddress)
        count == end_addr - start_addr + 1
        detail == start_rejected(sv, TaskActive)
    IN
    /\ IF detail # ""
       THEN /\ response' = Respond("start_monitoring", HTTP_BAD_REQUEST, detail,
                                   Some(LastExit), None, 0)
            /\ UNCHANGED <<services, tasks>>
       ELSE /\ Len(tasks) < MaxStarts
            /\ services' = [services EXCEPT ![modbus_service] =
                   add_register(sv, start_addr, count, "holding",
                                Some(<<"Holding_", start_addr, "-", end_addr>>))]
            /\ tasks' = Rebind(tasks, modbus_service)
            /\ response' = Respond("start_monitoring", HTTP_OK,
                                   "Monitoring started", Some(LastExit), None, 0)
    /\ event' = NoEvent
    /\ UNCHANGED <<modbus_service, environ, handlers, redis_latest,
                   redis_history, clock>>

\* requests a caller may send to POST /api/read (RegisterReadRequest)
ReadRequests ==
    {[address |-> 1, count |-> 2, register_type |-> "holding"],
     [address |-> 1, count |-> 2, register_type |-> "bogus"]}

\* what the driver may answer to a write
WriteAnswers == {[status |-> "ok", values |-> <<>>]} \cup DriverFailures

\* write_single_register / write_multiple_registers (modbus_service.py:148-200)
\* with the driver answering answer: the value returned and the number of
\* calls of the driver's write primitive
write_registers(sv, address, value, answer) ==
    IF ~sv.client \/ ~sv.connected THEN [returned |-> FALSE, io |-> 0]
    ELSE [returned |-> (answer.status = "ok"), io |-> 1]

\* POST /api/read (main.py:202-219)
read_response(sv, req, answer) ==
    IF ~is_connected(sv)
    THEN Respond("read", HTTP_BAD_REQUEST, "Not connected to Modbus device",
                 Some(req), None, 0)
    ELSE LET result == read_registers(sv, req.address, req.count,
                                      req.register_type, answer)
             io == IF read_reaches_driver(sv, req.register_type) THEN 1 ELSE 0
         IN  IF result # None
             THEN Respond("read", HTTP_OK, "", Some(req), result, io)
             ELSE Respond("read", HTTP_BAD_REQUEST, "Failed to read registers",
                          Some(req), None, io)

\* POST /api/write and POST /api/write_multiple (main.py:222-251); value is
\* the value of the one, the list of values of the other
write_response(sv, op, value, answer) ==
    IF ~is_connected(sv)
    THEN Respond(op, HTTP_BAD_REQUEST, "Not connected to Modbus device",
                 Some(value), None, 0)
    ELSE LET w == write_registers(sv, 1, value, answer)
         IN  IF w.returned
             THEN Respond(op, HTTP_OK, "Successfully wrote", Some(value), None, w.io)
             ELSE Respond(op, HTTP_BAD_REQUEST, "Failed to write", Some(value),
                          None, w.io)

\* a handler that only answers leaves the engine, the tasks and the sink as
\* they are
OnlyAnswers ==
    /\ event' = NoEvent
    /\ UNCHANGED <<services, modbus_service, tasks, environ, handlers,
                   redis_latest, redis_history, clock>>

ReadRegisters(req) ==
    /\ response' \in {read_response(services[modbus_service], req, answer) :
                         answer \in DriverAnswers(req, {0 - 1, 0, 1})}
    /\ OnlyAnswers

WriteRegister(value) ==
    /\ response' \in {write_response(services[modbus_service], "write", value,
                                      answer) : answer \in WriteAnswers}
    /\ OnlyAnswers

WriteMultipleRegisters(values) ==
    /\ response' \in {write_response(services[modbus_service], "write_multiple",
                                      values, answer) : answer \in WriteAnswers}
    /\ OnlyAnswers

\* GET /api/status (main.py:189-199).  "monitoring_task and not
\* monitoring_task.done()" is monitoring_task itself, that is None, while
\* no task was ever created, and the boolean otherwise.
GetStatus ==
    /\ response' = Respond("status", HTTP_OK, "", None,
                           Some([connected |-> is_connected(services[modbus_service]),
                                 monitoring |-> IF monitoring_task = 0 THEN None
                                                ELSE Some(TaskActive)]), 0)
    /\ OnlyAnswers

\* GET /api/data/latest (main.py:297-309)
GetLatestData ==
    /\ response' = Respond("latest", HTTP_OK, "", None,
                           get_latest_data(redis_latest), 0)
    /\ OnlyAnswers

\* GET /api/data/history?limit= (main.py:312-329)
GetHistoricalData(limit) ==
    /\ response' = Respond("history", HTTP_OK, "", Some(limit),
                           Some(get_historical_data(redis_history, limit)), 0)
    /\ OnlyAnswers

(***************************************************************************)
(* The environment: the link of an instance's client drops.                *)
(***************************************************************************)
LinkDrop(s) ==
    /\ s \in DOMAIN services
    /\ is_connected(services[s])
    /\ services' = [services EXCEPT ![s].connected = FALSE]
    /\ response' = NoResponse
    /\ event' = NoEvent
    /\ UNCHANGED <<modbus_service, tasks, environ, handlers,
                   redis_latest, redis_history, clock>>

\* any step of the monitoring task t
TaskStep(t) ==
    \/ TaskStart(t)
    \/ ReconnectDone(t)
    \/ \E i \in 1..MaxStarts : ReadComplete(t, i)
    \/ CycleJoin(t)
    \/ UnexpectedError(t)
    \/ RedisSet(t)
    \/ RedisZadd(t)
    \/ RedisTrim(t)
    \/ Wake(t)
    \/ Cancelled(t)

(***************************************************************************)
(* Engine: the steps of the monitoring tasks and the requests that change  *)
(* the engine, the task or the environment.  Requests: the requests that   *)
(* only answer; they leave every variable but response and event as it is. *)
(***************************************************************************)
Engine ==
    \/ \E t \in 1..MaxStarts : TaskStart(t)
    \/ \E t \in 1..MaxStarts : ReconnectDone(t)
    \/ \E t \in 1..MaxStarts : \E i \in 1..MaxStarts : ReadComplete(t, i)
    \/ \E t \in 1..MaxStarts : CycleJoin(t)
    \/ \E t \in 1..MaxStarts : UnexpectedError(t)
    \/ \E t \in 1..MaxStarts : RedisSet(t)
    \/ \E t \in 1..MaxStarts : RedisZadd(t)
    \/ \E t \in 1..MaxStarts : RedisTrim(t)
    \/ \E t \in 1..MaxStarts : Wake(t)
    \/ \E t \in 1..MaxStarts : Cancelled(t)
    \/ Connect
    \/ DisconnectRequest
    \/ DisconnectResume
    \/ StopRequest
    \/ StopResume
    \/ \E range \in ConfigRanges : UpdateConfigRequest(range)
    \/ UpdateConfigResume
    \/ StartMonitoring
    \/ \E s \in 1..(MaxConfigs + 1) : LinkDrop(s)

Requests ==
    \/ \E req \in ReadRequests : ReadRegisters(req)
    \/ \E value \in WriteValues : WriteRegister(value)
    \/ \E values \in WriteLists : WriteMultipleRegisters(values)
    \/ GetStatus
    \/ GetLatestData
    \/ \E limit \in Limits : GetHistoricalData(limit)

\* the requests served while one engine instance monitors: no stop, no
\* disconnect, no configuration update
Serving ==
    \/ \E t \in 1..MaxStarts : TaskStart(t)
    \/ \E t \in 1..MaxStarts : ReconnectDone(t)
    \/ \E t \in 1..MaxStarts : \E i \in 1..MaxStarts : ReadComplete(t, i)
    \/ \E t \in 1..MaxStarts : CycleJoin(t)
    \/ \E t \in 1..MaxStarts : UnexpectedError(t)
    \/ \E t \in 1..MaxStarts : RedisSet(t)
    \/ \E t \in 1..MaxStarts : RedisZadd(t)
    \/ \E t \in 1..MaxStarts : RedisTrim(t)
    \/ \E t \in 1..MaxStarts : Wake(t)
    \/ Connect
    \/ StartMonitoring
    \/ LinkDrop(1)
    \/ Requests

Next == Engine \/ Requests

\* The whole program.  A step of Requests changes response and event alone,
\* and every step of Engine sets both anew, so the values that services,
\* tasks, handlers, the sink and event take under Spec are those they take
\* under EngineSpec, and a response to a data request is a function of the
\* state it is served in.
Spec == Init /\ [][Next]_vars

\* the engine and its control requests
EngineSpec == Init /\ [][Engine]_vars

\* the data requests
ServingSpec == Init /\ [][Serving]_vars

\* one engine instance that is connected, started and stopped
Stopping ==
    \/ \E t \in 1..MaxStarts : TaskStep(t)
    \/ Connect
    \/ StartMonitoring
    \/ StopRequest
    \/ StopResume
    \/ LinkDrop(1)

\* The event loop runs every callback that is ready: a task that can take a
\* step takes it (a timer fires, a request is answered, a CancelledError is
\* delivered), and a handler whose awaited task has finished resumes.
FairSpec ==
    /\ Init /\ [][Stopping]_vars
    /\ \A t \in 1..MaxStarts : WF_vars(TaskStep(t))
    /\ WF_vars(StopResume)

(***************************************************************************)
(* The class used without the control surface: a caller builds an          *)
(* instance, adds the catalog entries it wants (none, perhaps), connects,  *)
(* and runs start_monitoring as a task; stop_monitoring is the call that   *)
(* asks the loop to end.  The caller sets the catalog up before it starts  *)
(* the first loop, and runs one loop at a time.                            *)
(***************************************************************************)
\* what a caller may pass to add_register
RegisterInputs ==
    {[address |-> 1, count |-> 2, register_type |-> "holding", name |-> None],
     [address |-> 3, count |-> 1, register_type |-> "input", name |-> Some(<<>>)],
     [address |-> 7, count |-> 1, register_type |-> "coils",
      name |-> Some(<<"Pump">>)]}

\* service.add_register(address, count, register_type, name)
AddRegister(r) ==
    /\ tasks = <<>>
    /\ Len(services[modbus_service].registers_to_monitor) < MaxRegisters
    /\ services' = [services EXCEPT ![modbus_service] =
           add_register(@, r.address, r.count, r.register_type, r.name)]
    /\ response' = Respond("add_register", 0, "", Some(r), None, 0)
    /\ event' = NoEvent
    /\ UNCHANGED <<modbus_service, tasks, environ, handlers, redis_latest,
                   redis_history, clock>>

\* asyncio.create_task(service.start_monitoring())
StartLoop ==
    /\ ~TaskActive
    /\ Len(tasks) < MaxStarts
    /\ tasks' = Rebind(tasks, modbus_service)
    /\ response' = NoResponse
    /\ event' = NoEvent
    /\ UNCHANGED <<services, modbus_service, environ, handlers, redis_latest,
                   redis_history, clock>>

\* service.stop_monitoring() while the loop runs
StopLoop ==
    /\ TaskActive
    /\ services[modbus_service].running
    /\ services' = [services EXCEPT ![modbus_service] = stop_monitoring(@)]
    /\ response' = NoResponse
    /\ event' = NoEvent
    /\ UNCHANGED <<modbus_service, tasks, environ, handlers, redis_latest,
                   redis_history, clock>>

Library ==
    \/ \E r \in RegisterInputs : AddRegister(r)
    \/ Connect
    \/ StartLoop
    \/ StopLoop
    \/ \E t \in 1..MaxStarts : TaskStart(t)
    \/ \E t \in 1..MaxStarts : ReconnectDone(t)
    \/ \E t \in 1..MaxStarts : \E i \in 1..MaxRegisters : ReadComplete(t, i)
    \/ \E t \in 1..MaxStarts : CycleJoin(t)
    \/ \E t \in 1..MaxStarts : UnexpectedError(t)
    \/ \E t \in 1..MaxStarts : RedisSet(t)
    \/ \E t \in 1..MaxStarts : RedisZadd(t)
    \/ \E t \in 1..MaxStarts : RedisTrim(t)
    \/ \E t \in 1..MaxStarts : Wake(t)
    \/ LinkDrop(1)

\* the class under a caller of its methods
LibrarySpec == Init /\ [][Library]_vars

(***************************************************************************)
(* Properties.                                                             *)
(***************************************************************************)
\* the last step was a failed step of the loop of task t: a reconnection
\* that failed, a cycle without a reading, an unexpected exception
FailedStep(t) ==
    /\ event.task = t
    /\ event.kind \in {"reconnect", "join", "error"}
    /\ ~event.ok

\* C1: the loop ends through the breaker in the very step in which it fails
\* for the 5th time in a row (failed reconnections, cycles without a reading
\* and unexpected exceptions, counted since the start or the last non-empty
\* batch), it never ends through the breaker on fewer, the program's counter
\* is that count, and a task that has ended takes no further step.
C1_Breaker ==
    \A t \in DOMAIN tasks :
        /\ event.task = t => event.was.pc # "done"
        /\ tasks[t].pc \notin {"created", "done"} =>
               /\ tasks[t].consecutive_errors = tasks[t].streak
               /\ tasks[t].streak < 5
        /\ FailedStep(t) /\ event.was.streak + 1 = 5 =>
               /\ tasks[t].pc = "done"
               /\ event.exit = "breaker"
        /\ event.task = t /\ event.exit = "breaker" =>
               /\ FailedStep(t)
               /\ event.was.streak + 1 = 5
               /\ tasks[t].pc = "done"

\* C1 witness: a loop has just ended through the breaker on its 5th failure
\* in a row, and it had stored a batch before.
C1_Witness ==
    /\ event.exit = "breaker"
    /\ event.was.streak = 4
    /\ tasks[event.task].pc = "done"
    /\ redis_history # <<>>

\* a start-monitoring request has just been answered, and the loop the
\* global monitoring_task referred to had ended through the breaker
StartAfterBreaker ==
    /\ response.op = "start_monitoring"
    /\ response.arg = Some("breaker")

\* C2 as stated: once a loop has ended through the breaker, a start-monitoring
\* request succeeds and creates a new loop.
C2_RestartAlwaysSucceeds ==
    StartAfterBreaker =>
        /\ response.status = HTTP_OK
        /\ tasks[monitoring_task].pc = "created"

\* C2 amended: once a loop has ended through the breaker, a start-monitoring
\* request succeeds exactly when the link is connected at the time of the
\* request; then it creates a new loop on the current instance, otherwise it
\* is rejected for the missing connection and creates none.  The first step
\* of every loop leaves its consecutive-error counter at 0.
C2_Restart ==
    /\ StartAfterBreaker =>
          /\ response.status = HTTP_OK <=> is_connected(services[modbus_service])
          /\ response.status = HTTP_OK =>
                /\ tasks[monitoring_task].pc = "created"
                /\ tasks[monitoring_task].service = modbus_service
                /\ \A u \in 1..(monitoring_task - 1) : tasks[u].pc = "done"
          /\ response.status # HTTP_OK =>
                /\ response.detail = "Not connected to Modbus device"
                /\ tasks[monitoring_task].pc = "done"
                /\ LastExit = "breaker"
    /\ \A t \in DOMAIN tasks :
          event.task = t /\ event.kind = "start" =>
              /\ tasks[t].pc # "done"
              /\ tasks[t].consecutive_errors = 0

\* C2 witness: a start-monitoring request after a loop ended through the
\* breaker has succeeded and created the second loop.
C2_Witness ==
    /\ StartAfterBreaker
    /\ response.status = HTTP_OK
    /\ monitoring_task = 2
    /\ tasks[2].pc = "created"

\* C3 as stated: an iteration that begins with the link disconnected makes a
\* reconnection attempt and runs no acquisition cycle, whether the attempt
\* fails or succeeds.
C3_NoCycleAfterReconnect ==
    \A t \in DOMAIN tasks :
        event.task = t =>
            /\ event.kind \in {"start", "wake"} /\ ~event.linked /\ event.exit = "" =>
                   tasks[t].pc = "connect"
            /\ event.kind = "reconnect" =>
                   tasks[t].pc \notin {"gather", "set"}

\* C3 amended: an iteration that begins with the link disconnected makes a
\* reconnection attempt; when the attempt fails the iteration runs no
\* acquisition cycle and stores no batch (it counts a failure and sleeps or
\* ends through the breaker); when the attempt succeeds the acquisition cycle
\* runs in that same iteration.
C3_Reconnect ==
    \A t \in DOMAIN tasks :
        event.task = t =>
            /\ event.kind \in {"start", "wake"} /\ ~event.linked /\ event.exit = "" =>
                   /\ tasks[t].pc = "connect"
                   /\ services[tasks[t].service].client
            /\ event.kind \in {"start", "wake"} /\ event.linked /\ event.exit = "" =>
                   tasks[t].pc = "gather"
            /\ event.kind = "reconnect" /\ ~event.ok =>
                   /\ tasks[t].pc \in {"sleep", "done"}
                   /\ tasks[t].pc = "sleep" =>
                          tasks[t].consecutive_errors = event.was.consecutive_errors + 1
            /\ event.kind = "reconnect" /\ event.ok =>
                   /\ tasks[t].pc = "gather"
                   /\ tasks[t].pending = DOMAIN tasks[t].coroutines
                   /\ tasks[t].consecutive_errors = event.was.consecutive_errors

\* C3 witness: a reconnection has succeeded and the acquisition cycle of the
\* same iteration is in flight.
C3_Witness ==
    /\ event.kind = "reconnect"
    /\ event.ok
    /\ ~event.linked
    /\ tasks[event.task].pc = "gather"
    /\ tasks[event.task].pending # {}

\* the entries of the cycle that task tk joined whose read returned a reading
Successes(tk) == {i \in DOMAIN tk.results : tk.results[i] # None}

\* C4: when a cycle is joined with at least one reading, the counter is set
\* to 0 and the batch is handed to the sink (the store begins, and only a
\* join begins a store); when it is joined with none, the counter grows by
\* exactly 1 and nothing is handed to the sink.
C4_Cycle ==
    \A t \in DOMAIN tasks :
        event.task = t =>
            /\ event.kind = "join" /\ Successes(event.was) # {} =>
                   /\ tasks[t].pc = "set"
                   /\ tasks[t].consecutive_errors = 0
                   /\ tasks[t].latest_data # None
                   /\ Len(tasks[t].latest_data[1].data) =
                          Cardinality(Successes(event.was))
            /\ event.kind = "join" /\ Successes(event.was) = {} =>
                   /\ tasks[t].pc \in {"sleep", "done"}
                   /\ tasks[t].latest_data = None
                   /\ tasks[t].pc = "sleep" =>
                          tasks[t].consecutive_errors = event.was.consecutive_errors + 1
                   /\ tasks[t].pc = "done" =>
                          event.was.consecutive_errors + 1 = 5
            /\ tasks[t].pc = "set" => event.kind = "join"
            /\ event.kind = "set" => event.was.pc = "set"

\* C4 witness: a cycle in which one entry failed and one succeeded has been
\* joined after earlier failures; the counter is back at 0 and the partial
\* batch is being stored.
C4_Witness ==
    /\ event.kind = "join"
    /\ event.was.consecutive_errors > 0
    /\ \E i, j \in DOMAIN event.was.results :
          event.was.results[i] = None /\ event.was.results[j] # None
    /\ tasks[event.task].consecutive_errors = 0
    /\ tasks[event.task].pc = "set"

\* the elements of a sequence
Range(f) == {f[i] : i \in DOMAIN f}

\* C5: a cycle issues one read per catalog entry, each read completes once,
\* the cycle is joined only when all of them have (a failed one does not
\* abort it), and the batch is the successful entries in catalog order, so
\* that its length is the number of successes and at most the catalog's.
C5_Batch ==
    \A t \in DOMAIN tasks :
        LET tk == tasks[t]
            registers == services[tk.service].registers_to_monitor
        IN  /\ tk.pc = "gather" =>
                  /\ tk.coroutines = read_all_tasks(services[tk.service])
                  /\ Len(tk.coroutines) = Len(registers)
                  /\ Len(tk.order) = Cardinality(Range(tk.order))
                  /\ Range(tk.order) \cap tk.pending = {}
                  /\ Range(tk.order) \cup tk.pending = DOMAIN registers
                  /\ Successes(tk) \subseteq Range(tk.order)
            /\ event.task = t /\ event.kind = "join" =>
                  /\ Range(event.was.order) = DOMAIN registers
                  /\ Successes(event.was) # {} =>
                        /\ tk.latest_data # None
                        /\ LET batch == tk.latest_data[1].data IN
                            /\ Len(batch) = Cardinality(Successes(event.was))
                            /\ Len(batch) <= Len(registers)
                            /\ \A k \in DOMAIN batch :
                                  /\ batch[k].entry \in Successes(event.was)
                                  /\ batch[k].values =
                                        event.was.results[batch[k].entry][1].values
                                  /\ batch[k].address =
                                        registers[batch[k].entry].address
                                  /\ batch[k].name = registers[batch[k].entry].name
                            /\ \A k \in 1..(Len(batch) - 1) :
                                  batch[k].entry < batch[k + 1].entry

\* C5 witness: the reads of a two-entry catalog completed in the order 2, 1,
\* the first failed, and the batch of the joined cycle holds entry 2 alone.
C5_Witness ==
    /\ event.kind = "join"
    /\ event.was.order = <<2, 1>>
    /\ event.was.results[1] = None
    /\ event.was.results[2] # None
    /\ Len(tasks[event.task].latest_data[1].data) = 1
    /\ tasks[event.task].latest_data[1].data[1].entry = 2

\* the tasks that have not finished
ActiveTasks == {t \in DOMAIN tasks : tasks[t].pc # "done"}

\* C6: at most one monitoring loop is active in every reachable state (so at
\* most one per engine instance); a start-monitoring request that succeeds
\* finds every earlier loop finished, and one made while a loop is active
\* is rejected with an error and creates no loop.
C6_OneLoop ==
    /\ Cardinality(ActiveTasks) <= 1
    /\ \A s \in DOMAIN services :
          Cardinality({t \in ActiveTasks : tasks[t].service = s}) <= 1
    /\ response.op = "start_monitoring" /\ response.status = HTTP_OK =>
          /\ ActiveTasks = {monitoring_task}
          /\ tasks[monitoring_task].pc = "created"
    /\ response.op = "start_monitoring" /\ response.status # HTTP_OK =>
          /\ response.status = HTTP_BAD_REQUEST
          /\ response.detail \in {"Not connected to Modbus device",
                                   "Monitoring already running"}
          /\ response.detail = "Monitoring already running" => TaskActive

\* C6 witness: a start-monitoring request has been rejected while the loop,
\* asked to stop, has not yet left its sleep.
C6_Witness ==
    /\ response.op = "start_monitoring"
    /\ response.detail = "Monitoring already running"
    /\ handlers["stop_monitoring"].task = monitoring_task
    /\ tasks[monitoring_task].cancel
    /\ tasks[monitoring_task].pc = "sleep"

\* the stop-monitoring handler has cancelled task t and awaits it, and the
\* task is in its sleep between two iterations
StopWhileSleeping(t) ==
    /\ t \in DOMAIN tasks
    /\ handlers["stop_monitoring"].task = t
    /\ tasks[t].cancel
    /\ tasks[t].pc \in {"sleep", "sleep_exc"}

\* C7: once stop is requested while the loop sleeps between two iterations,
\* the loop eventually ends; until then the only step it takes is the one
\* that ends it, and the sink is not written.
C7_StopDuringSleep ==
    /\ [][\A t \in DOMAIN tasks :
            StopWhileSleeping(t) =>
                /\ tasks'[t] = tasks[t] \/ tasks'[t].pc = "done"
                /\ UNCHANGED <<redis_latest, redis_history>>]_vars
    /\ \A t \in 1..MaxStarts :
          StopWhileSleeping(t) ~> (t \in DOMAIN tasks /\ tasks[t].pc = "done")

\* C7 witness: a loop that was asked to stop in its sleep has just ended
\* there, with the batch it stored before still the only one in the sink.
C7_Witness ==
    /\ event.kind = "cancelled"
    /\ event.was.pc = "sleep"
    /\ handlers["stop_monitoring"].task = event.task
    /\ tasks[event.task].pc = "done"
    /\ Len(redis_history) = 1

\* C8 as stated: a cancellation that reaches the task while its cycle is in
\* flight or its batch is being written leaves the sink without data of that
\* cycle: the batch is neither the latest snapshot nor in the history.
C8_CancelLeavesSinkUnchanged ==
    \A t \in DOMAIN tasks :
        /\ event.task = t
        /\ event.kind = "cancelled"
        /\ event.was.pc \in {"gather", "set", "zadd", "zremrangebyrank"}
        /\ event.was.latest_data # None
        => /\ redis_latest # Some(json_dumps(event.was.latest_data[1]))
           /\ \A k \in DOMAIN redis_history :
                 redis_history[k].member # json_dumps(event.was.latest_data[1])

\* the values of a write request that a 16-bit register cannot hold
OutOfRange(op, arg) ==
    IF op = "write" THEN arg \notin 0..65535
    ELSE \E k \in DOMAIN arg : arg[k] \notin 0..65535

\* C9 as stated: a write request with a value outside 0..65535 is rejected
\* before any transport I/O: the driver's write primitive is not called.
C9_WriteValidated ==
    /\ response.op \in {"write", "write_multiple"}
    /\ OutOfRange(response.op, response.arg[1])
    => /\ response.status = HTTP_BAD_REQUEST
       /\ response.io = 0

\* C10 as stated: the history holds at most 1000 entries, and a history
\* request with limit k returns the min(k, size) most recent entries, newest
\* first.
C10_History ==
    /\ Len(redis_history) <= 1000
    /\ response.op = "history" =>
          LET k == response.arg[1]
              got == response.result[1]
              n == Len(redis_history)
          IN  /\ Len(got) = Min(k, n)
              /\ \A i \in DOMAIN got :
                    got[i].timestamp = redis_history[n - i + 1].score

\* the steps of the task that are answers of Redis to a write of the sink
SinkSteps == {"set", "zadd", "zremrangebyrank"}

\* C11: a write of the sink that fails (the latest snapshot, the history
\* append or the trim) leaves the loop running and asleep until its next
\* iteration, with the consecutive-error counter where the batch had put it,
\* at 0: the task is left exactly as a store that succeeded leaves it.  No
\* step of the sink ends the loop through the breaker.
C11_SinkFailure ==
    \A t \in DOMAIN tasks :
        event.task = t /\ event.kind \in SinkSteps =>
            /\ event.exit # "breaker"
            /\ ~event.ok \/ event.kind = "zremrangebyrank" =>
                   /\ event.exit = ""
                   /\ tasks[t] = [event.was EXCEPT !.pc = "sleep",
                                                   !.latest_data = None,
                                                   !.timestamp = 0]
                   /\ tasks[t].consecutive_errors = 0
                   /\ services[tasks[t].service].running

\* C11 witness: the history append of a batch has just failed after the
\* snapshot was written, and the loop sleeps with its counter at 0.
C11_Witness ==
    /\ event.kind = "zadd"
    /\ ~event.ok
    /\ tasks[event.task].pc = "sleep"
    /\ tasks[event.task].consecutive_errors = 0
    /\ redis_latest # None
    /\ redis_history = <<>>

\* the link of an instance is down: it has no client, or its client is not
\* connected
Disconnected(sv) == ~sv.client \/ ~sv.connected

\* the register calls of the control surface
RegisterCalls == {"read", "write", "write_multiple"}

\* C12: a read, a single write or a multiple write requested while the link
\* of the current instance is down is answered with the error 400 "Not
\* connected to Modbus device" and no result; the driver is not called, and
\* the instances (their clients and links), the current instance and the
\* tasks are left as they were.
C12_DisconnectedCalls ==
    [][response'.op \in RegisterCalls /\ Disconnected(services[modbus_service]) =>
          /\ response'.status = HTTP_BAD_REQUEST
          /\ response'.detail = "Not connected to Modbus device"
          /\ response'.result = None
          /\ response'.io = 0
          /\ UNCHANGED <<services, modbus_service, tasks, handlers>>]_vars

\* C12 witness: a multiple write has been refused on an instance whose client
\* has lost its link, and the link is still down.
C12_Witness ==
    /\ response.op = "write_multiple"
    /\ response.status = HTTP_BAD_REQUEST
    /\ response.detail = "Not connected to Modbus device"
    /\ response.io = 0
    /\ services[modbus_service].client
    /\ ~services[modbus_service].connected

\* the loop the global monitoring_task refers to ended through the breaker
\* on the current instance, and monitoring has not been started again since
Faulted ==
    /\ LastExit = "breaker"
    /\ tasks[monitoring_task].service = modbus_service

\* C13 as stated: after the loop has ended through the breaker and until
\* monitoring is started again, every read and write call is answered with
\* an error without calling the driver, also when the link is connected.
C13_FaultedRejects ==
    response.op \in RegisterCalls /\ Faulted =>
        /\ response.status = HTTP_BAD_REQUEST
        /\ response.io = 0

\* C14 as stated: a connect request on an instance whose link is connected
\* succeeds without a transport connection attempt, leaves the client that
\* is there (no connect in flight is superseded) and leaves the link
\* connected.
C14_ConnectIdempotent ==
    [][response'.op = "connect" /\ is_connected(services[modbus_service]) =>
          /\ response'.status = HTTP_OK
          /\ response'.io = 0
          /\ is_connected(services'[modbus_service])
          /\ UNCHANGED <<services, tasks>>]_vars

\* C15: a disconnect request is answered with success whatever the state of
\* the current instance (no client yet, a connected client, a client whose
\* link is down); when it is answered the link is down and nothing else of
\* any instance has changed; on an instance whose link is already down it
\* changes nothing, so that a second disconnect leaves the state the first
\* one left.
C15_Disconnect ==
    [][response'.op = "disconnect" =>
          /\ response'.status = HTTP_OK
          /\ Disconnected(services'[modbus_service'])
          /\ services' = [services EXCEPT ![modbus_service].connected = FALSE]
          /\ Disconnected(services[modbus_service]) => services' = services
          /\ UNCHANGED <<modbus_service, tasks>>]_vars

\* C15 witness: a disconnect request has ended the loop of the current
\* instance and closed its client.
C15_Witness ==
    /\ response.op = "disconnect"
    /\ response.status = HTTP_OK
    /\ LastExit = "cancelled"
    /\ tasks[monitoring_task].service = modbus_service
    /\ services[modbus_service].client
    /\ ~services[modbus_service].connected

\* C16: a stop request made while no monitoring loop is active is answered
\* with success and starts or ends no task; it leaves the clients, the links
\* and the catalogs of all instances as they are (all it does is clear the
\* running flag of the current instance), and a stop request that follows
\* another one directly changes nothing at all.
C16_StopIdempotent ==
    [][response'.op = "stop_monitoring" =>
          /\ response'.status = HTTP_OK
          /\ ~TaskActive /\ handlers["stop_monitoring"].task = 0 =>
                /\ services' = [services EXCEPT ![modbus_service].running = FALSE]
                /\ ~TaskActive'
                /\ UNCHANGED <<modbus_service, tasks, environ, handlers,
                               redis_latest, redis_history, clock>>
          /\ response.op = "stop_monitoring" => UNCHANGED vars]_vars

\* C16 witness: a stop request has been answered after the loop had ended
\* through the breaker; the link is still connected and the catalog still
\* holds its entry.
C16_Witness ==
    /\ response.op = "stop_monitoring"
    /\ response.status = HTTP_OK
    /\ LastExit = "breaker"
    /\ tasks[monitoring_task].service = modbus_service
    /\ is_connected(services[modbus_service])
    /\ Len(services[modbus_service].registers_to_monitor) = 1

\* C17 as stated: every reading a register read returns, to a read request
\* or to a cycle of the loop, holds as many values as the read asked for.
C17_ReadLength ==
    /\ response.op = "read" /\ response.status = HTTP_OK =>
          Len(response.result[1].values) = response.arg[1].count
    /\ \A t \in DOMAIN tasks :
          \A i \in DOMAIN tasks[t].results :
              tasks[t].results[i] # None =>
                  Len(tasks[t].results[i][1].values) = tasks[t].coroutines[i].count

\* C18 as stated: when a configuration update is answered no monitoring loop
\* is left running, the link of every previous instance is down, and the new
\* current instance is as built (no client, not running, an empty catalog);
\* afterwards no loop of a previous instance writes to the sink.
C18_Teardown ==
    /\ [](response.op = "update_config" =>
             /\ ActiveTasks = {}
             /\ \A s \in 1..(modbus_service - 1) : Disconnected(services[s])
             /\ services[modbus_service] = ModbusService)
    /\ [][\A t \in DOMAIN tasks :
             event'.task = t /\ tasks[t].service # modbus_service =>
                 UNCHANGED <<redis_latest, redis_history>>]_vars

\* the last step of task t reached the device: a reconnection that
\* succeeded, or a read that returned a reading
Reached(t) ==
    /\ event.task = t
    /\ event.kind \in {"reconnect", "read"}
    /\ event.ok

\* C19: under fair scheduling, a monitoring loop whose reconnections and
\* reads all fail from some point on eventually ends: from every state in
\* which the task exists, the task eventually has ended or has reached the
\* device once more.
C19_BreakerLiveness ==
    \A t \in 1..MaxStarts :
        (t \in DOMAIN tasks) ~>
            (t \in DOMAIN tasks /\ (tasks[t].pc = "done" \/ Reached(t)))

\* C19 witness: a loop that never reached the device after its link dropped
\* has just ended through the breaker on its 5th failed reconnection.
C19_Witness ==
    /\ event.kind = "reconnect"
    /\ ~event.ok
    /\ event.exit = "breaker"
    /\ event.was.consecutive_errors = 4
    /\ tasks[event.task].pc = "done"
    /\ redis_latest = None

\* the ways the loop is meant to end: the break at the threshold, the while
\* condition found false after a stop, the break of the CancelledError
\* handler
NormalExits == {"breaker", "stopped", "cancelled"}

\* C20 as stated: a task that has begun its loop ends in one of the three
\* ways above and through the loop's exit path, which clears the running
\* flag; an unexpected exception is counted and never ends the task but
\* through the breaker; a CancelledError delivered at any await of the loop,
\* the sleep that follows an unexpected exception included, ends it through
\* the handler of the loop.
C20_NormalExit ==
    \A t \in DOMAIN tasks :
        event.task = t =>
            /\ event.exit # "" /\ event.was.pc # "created" =>
                   /\ event.exit \in NormalExits
                   /\ ~services[tasks[t].service].running
            /\ event.kind = "error" =>
                   /\ tasks[t].pc \in {"sleep_exc", "done"}
                   /\ tasks[t].pc = "sleep_exc" =>
                          tasks[t].consecutive_errors = event.was.consecutive_errors + 1
                   /\ tasks[t].pc = "done" => event.exit = "breaker"
            /\ event.kind = "cancelled" /\ event.was.pc # "created" =>
                   event.exit = "cancelled"

\* C21: the step in which a reconnection of the loop fails adds exactly 1 to
\* the consecutive-error counter and, unless that makes 5 and ends the loop
\* through the breaker, leaves the task in the sleep of one interval; that
\* step issues no read, hands nothing to the sink and writes nothing to it.
\* A reconnection is only ever begun by the first run of the task or by the
\* end of a sleep, so the next attempt comes after the sleep.
C21_FailedReconnect ==
    [][\A t \in DOMAIN tasks :
          /\ event'.task = t /\ event'.kind = "reconnect" /\ ~event'.ok =>
                /\ tasks[t].pc = "connect"
                /\ IF tasks[t].consecutive_errors + 1 < max_consecutive_errors
                   THEN /\ tasks'[t].pc = "sleep"
                        /\ tasks'[t].consecutive_errors =
                               tasks[t].consecutive_errors + 1
                   ELSE /\ tasks'[t].pc = "done"
                        /\ event'.exit = "breaker"
                /\ tasks'[t].coroutines = <<>>
                /\ tasks'[t].pending = {}
                /\ tasks'[t].latest_data = None
                /\ UNCHANGED <<redis_latest, redis_history, clock>>
          /\ tasks'[t].pc = "connect" /\ tasks[t].pc # "connect" =>
                /\ tasks[t].pc \in {"created", "sleep", "sleep_exc"}
                /\ event'.kind \in {"start", "wake"}]_vars

\* C21 witness: the third reconnection in a row has just failed after a
\* batch had been stored, and the loop sleeps with its counter at 3.
C21_Witness ==
    /\ event.kind = "reconnect"
    /\ ~event.ok
    /\ event.was.consecutive_errors = 2
    /\ tasks[event.task].pc = "sleep"
    /\ tasks[event.task].consecutive_errors = 3
    /\ Len(redis_history) = 1

\* C22: the step that begins a cycle puts one read per catalog entry in
\* flight, all of them before the task waits for any result; and while the
\* cycle is in flight every read that has not completed can complete next,
\* whichever of the others have completed.
C22_AllInFlight ==
    \A t \in DOMAIN tasks :
        LET tk == tasks[t]
            registers == services[tk.service].registers_to_monitor
        IN  /\ /\ event.task = t
               /\ event.kind \in {"start", "wake", "reconnect"}
               /\ tk.pc = "gather"
               => /\ tk.pending = DOMAIN registers
                  /\ DOMAIN tk.coroutines = DOMAIN registers
                  /\ tk.order = <<>>
                  /\ \A i \in DOMAIN tk.results : tk.results[i] = None
            /\ tk.pc = "gather" /\ ~tk.cancel /\ ~WakeupQueued =>
                  \A i \in tk.pending : ENABLED ReadComplete(t, i)

\* C22 witness: of the two reads of a cycle the second has completed, and
\* the first is still in flight.
C22_Witness ==
    /\ event.kind = "read"
    /\ tasks[event.task].pc = "gather"
    /\ tasks[event.task].order = <<2>>
    /\ tasks[event.task].pending = {1}

\* C23: every reading of a batch carries the name, the address, the kind and
\* the count of the catalog entry its read was issued for, whichever of the
\* other reads failed; and the entry add_register appends holds what it was
\* given, with the name kind_address when it was given no name.
C23_ReadingTags ==
    /\ \A t \in DOMAIN tasks :
          LET tk == tasks[t]
              registers == services[tk.service].registers_to_monitor
          IN  tk.latest_data # None =>
                  \A k \in DOMAIN tk.latest_data[1].data :
                      LET reading == tk.latest_data[1].data[k]
                          entry == registers[reading.entry]
                      IN  /\ reading.name = entry.name
                          /\ reading.address = entry.address
                          /\ reading.type = entry.register_type
                          /\ reading.count = entry.count
                          /\ event.task = t /\ event.kind = "join" =>
                                 event.was.results[reading.entry] # None
    /\ response.op = "add_register" =>
          LET r == response.arg[1]
              registers == services[modbus_service].registers_to_monitor
              entry == registers[Len(registers)]
          IN  /\ entry.address = r.address
              /\ entry.count = r.count
              /\ entry.register_type = r.register_type
              /\ entry.name = IF r.name \in {None, Some(<<>>)}
                               THEN <<r.register_type, "_", r.address>>
                               ELSE r.name[1]

\* C23 witness: of a catalog whose second entry was added without a name the
\* first read failed, and the only reading of the batch carries the second
\* entry's default name.
C23_Witness ==
    /\ event.kind = "join"
    /\ event.was.results[1] = None
    /\ Len(services[modbus_service].registers_to_monitor) = 2
    /\ services[modbus_service].registers_to_monitor[1].name = <<"Pump">>
    /\ tasks[event.task].latest_data # None
    /\ Len(tasks[event.task].latest_data[1].data) = 1
    /\ tasks[event.task].latest_data[1].data[1].name = <<"holding", "_", 1>>
    /\ tasks[event.task].latest_data[1].data[1].address = 1

\* C24 as stated: once the catalog of an instance holds the entries of its
\* configuration (the first start reads them from the environment), no
\* start, stop or end of a loop changes it, so that the cycles of a loop
\* started later issue as many reads as those of the first.
C24_CatalogFixed ==
    [][\A s \in DOMAIN services :
          services[s].registers_to_monitor # <<>> =>
              services'[s].registers_to_monitor = services[s].registers_to_monitor]_vars

\* C25: a start-monitoring request made while the link of the current
\* instance is down is answered with the error 400 "Not connected to Modbus
\* device" and changes nothing: no task is created, no catalog, client or
\* link changes.  A request that is answered with success found the link
\* connected.
C25_StartNeedsLink ==
    [][response'.op = "start_monitoring" =>
          /\ Disconnected(services[modbus_service]) =>
                /\ response'.status = HTTP_BAD_REQUEST
                /\ response'.detail = "Not connected to Modbus device"
                /\ UNCHANGED <<services, modbus_service, tasks, environ,
                               handlers, redis_latest, redis_history, clock>>
          /\ response'.status = HTTP_OK =>
                ~Disconnected(services[modbus_service])]_vars

\* C25 witness: a start-monitoring request has been refused on an instance
\* whose link dropped after its loop had ended; the catalog still holds the
\* one entry of the first start.
C25_Witness ==
    /\ response.op = "start_monitoring"
    /\ response.status = HTTP_BAD_REQUEST
    /\ response.detail = "Not connected to Modbus device"
    /\ Disconnected(services[modbus_service])
    /\ ~TaskActive
    /\ monitoring_task = 1
    /\ Len(services[modbus_service].registers_to_monitor) = 1

\* C26 as stated: the running flag of an instance is true only while a loop
\* of that instance is active and has begun; once the loop has finished, in
\* whichever way, the flag is false.
C26_RunningFlag ==
    \A s \in DOMAIN services :
        services[s].running =>
            \E t \in ActiveTasks :
                tasks[t].service = s /\ tasks[t].pc # "created"

\* the latest snapshot is the newest entry of the history
SnapshotIsNewest ==
    /\ redis_history # <<>>
    /\ redis_latest = Some(redis_history[Len(redis_history)].member)

\* no task is inside store_data_to_redis
NoStoreInProgress ==
    \A t \in DOMAIN tasks : tasks[t].pc \notin SinkSteps

C28_StaysDisconnected ==
    response.op = "disconnect" =>
        /\ ActiveTasks = {}
        /\ Disconnected(services[modbus_service])

\* C29 as stated: the status operation reports monitoring = true when a
\* monitoring task is active and monitoring = false when none is (before the
\* first start too), and connected as is_connected() of the current
\* instance.
C29_Status ==
    [][response'.op = "status" =>
          response'.result =
              Some([connected |-> is_connected(services[modbus_service]),
                    monitoring |-> Some(TaskActive)])]_vars

\* the catalog of the instance of task t is empty
EmptyCatalog(t) == services[tasks[t].service].registers_to_monitor = <<>>

\* C30: with an empty catalog and the link up, an iteration of the loop (its
\* first run, or a wake-up that finds the running flag set) reads nothing,
\* counts one failure and writes nothing to the sink: the first four
\* iterations leave the loop asleep with the counter at the number of
\* iterations made, and the fifth ends it through the circuit breaker.  A
\* loop asleep over an empty catalog has counted between one and four
\* failures, and while the catalog is empty the sink holds nothing.
C30_EmptyCatalog ==
    /\ [](\A t \in DOMAIN tasks :
             EmptyCatalog(t) =>
                 /\ redis_latest = None /\ redis_history = <<>>
                 /\ tasks[t].pc \in {"created", "connect", "sleep", "done"}
                 /\ tasks[t].pc = "sleep" =>
                        tasks[t].consecutive_errors \in 1..(max_consecutive_errors - 1))
    /\ [][\A t \in DOMAIN tasks :
             /\ event'.task = t
             /\ event'.kind \in {"start", "wake"}
             /\ EmptyCatalog(t)
             /\ is_connected(services[tasks[t].service])
             /\ event'.kind = "wake" => services[tasks[t].service].running
             => LET n == IF event'.kind = "start" THEN 1
                         ELSE tasks[t].consecutive_errors + 1
                IN  /\ UNCHANGED <<redis_latest, redis_history>>
                    /\ IF n < max_consecutive_errors
                       THEN /\ tasks'[t].pc = "sleep"
                            /\ tasks'[t].consecutive_errors = n
                            /\ tasks'[t].latest_data = None
                       ELSE /\ n = max_consecutive_errors
                            /\ tasks'[t].pc = "done"
                            /\ event'.exit = "breaker"
                            /\ ~services'[tasks[t].service].running]_vars

\* C30 witness: the fifth iteration in a row over an empty catalog, the link
\* up, has just ended the loop through the circuit breaker, and the sink is
\* empty.
C30_Witness ==
    /\ event.task \in DOMAIN tasks
    /\ event.kind = "wake"
    /\ event.linked
    /\ EmptyCatalog(event.task)
    /\ event.was.consecutive_errors = max_consecutive_errors - 1
    /\ event.exit = "breaker"
    /\ tasks[event.task].pc = "done"
    /\ redis_latest = None
    /\ redis_history = <<>>

\* C31: the counter of consecutive errors of a loop that has begun and has
\* not ended is between 0 and 5; it is at most 4 while the loop sleeps and
\* when an iteration has just started (the first run, or a wake-up that did
\* not end the loop); it is 5 only in the step that leaves the loop through
\* the circuit breaker, which comes from 4; a task that has not begun or has
\* ended has no counter.
C31_CounterRange ==
    \A t \in DOMAIN tasks :
        LET tk == tasks[t]
        IN  /\ tk.pc \notin {"created", "done"} =>
                   tk.consecutive_errors \in 0..max_consecutive_errors
            /\ tk.pc \in {"sleep", "sleep_exc"} =>
                   tk.consecutive_errors \in 0..(max_consecutive_errors - 1)
            /\ event.task = t /\ event.kind \in {"start", "wake"} /\ tk.pc # "done" =>
                   tk.consecutive_errors \in 0..(max_consecutive_errors - 1)
            /\ event.task = t /\ event.exit = "breaker" =>
                   event.was.consecutive_errors + 1 = max_consecutive_errors
            /\ tk.pc \in {"created", "done"} => tk.consecutive_errors = Unbound

\* C31 witness: an unexpected exception was the fourth failure in a row, and
\* the loop sleeps with its counter at 4.
C31_Witness ==
    /\ event.task \in DOMAIN tasks
    /\ event.kind = "error"
    /\ event.was.consecutive_errors = max_consecutive_errors - 2
    /\ tasks[event.task].pc = "sleep_exc"
    /\ tasks[event.task].consecutive_errors = max_consecutive_errors - 1

=============================================================================
